---- MODULE Spec2Model ----
(***************************************************************************)
(* State-machine model of src/trade.py (the price-action / ICT setup       *)
(* checker): the text parsers, the time-window test, the rules engine of   *)
(* main(), the stop / take-profit calculators and the position sizer.      *)
(*                                                                         *)
(* Representation.                                                         *)
(*  - Texts typed by the user are TLA+ strings; the parsers work on their  *)
(*    characters (SubSeq / Len / \o).                                       *)
(*  - Python's None is the empty tuple <<>>, a present value v is <<v>>.   *)
(*  - A datetime.time is the pair <<hour, minute>>.                        *)
(*  - A price is an integer number of millionths (1.1000 is 1100000), so   *)
(*    that round(x, 5) is a real rounding to a multiple of 10.  A decimal  *)
(*    tie (...5 in the sixth place) is decided by the binary value of the  *)
(*    float, which the decimal model does not carry: the variable fp fixes *)
(*    the direction of such ties per rounding site, chosen freely.         *)
(*  - The em dash of the reason texts is written "-" (ASCII).              *)
(***************************************************************************)
EXTENDS Integers, Sequences, TLC

VARIABLES
    win_input,        \* text typed at the trading-windows prompt
    direction,        \* "long" | "short"
    structure_1h,     \* "higher" | "lower" | "unclear"
    market_env,       \* "expansion" | "consolidation" | "reversal" | "retracement"
    patterns_raw,     \* text typed at the patterns prompt
    fvg, ob, liq,     \* "y" | "n"
    time_setup_str,   \* text typed at the time-of-setup prompt
    entry_s, stop_s, atr_s, acct_s, risk_pct_s,  \* texts typed at the numeric prompts
    fp,               \* direction of decimal ties, per rounding site
    trading_windows,  \* list of <<start, end>>
    patterns,         \* list of lower-case pattern names
    tsetup,           \* optional time
    time_ok,          \* BOOLEAN
    entry, stop_price, atr,   \* optional prices
    score, reasons,
    ict_confirm, pattern_confirm,
    should_trade,
    suggested_stop, stop_distance,
    tps,              \* list of <<multiple (tenths), price>>
    pos_hint,
    verdict,          \* "valid" | "not_recommended" | "" (not printed yet)
    pc                \* position in main() / in the function under test

inputs == <<win_input, direction, structure_1h, market_env, patterns_raw,
            fvg, ob, liq, time_setup_str, entry_s, stop_s, atr_s, acct_s,
            risk_pct_s, fp>>
parsed == <<trading_windows, patterns, tsetup, time_ok, entry, stop_price, atr>>
rules  == <<score, reasons, ict_confirm, pattern_confirm>>
calc   == <<suggested_stop, stop_distance, tps, pos_hint>>
vars   == <<inputs, parsed, rules, should_trade, calc, verdict, pc>>

None == <<>>
Some(v) == <<v>>

----------------------------------------------------------------------------
(* Text primitives used by the source: str.strip, str.split, str.lower,    *)
(* " ".join, the "in" substring test and int().                            *)

CharAt(s, i) == SubSeq(s, i, i)

RECURSIVE LStripFrom(_, _)
LStripFrom(s, i) ==
    IF i > Len(s) THEN ""
    ELSE IF CharAt(s, i) = " " THEN LStripFrom(s, i + 1)
    ELSE SubSeq(s, i, Len(s))

RECURSIVE RStripTo(_, _)
RStripTo(s, j) ==
    IF j < 1 THEN ""
    ELSE IF CharAt(s, j) = " " THEN RStripTo(s, j - 1)
    ELSE SubSeq(s, 1, j)

Strip(s) == LET l == LStripFrom(s, 1) IN RStripTo(l, Len(l))

\* s.split(sep) for a one-character sep: always at least one piece.
RECURSIVE SplitFrom(_, _, _, _)
SplitFrom(s, sep, start, i) ==
    IF i > Len(s) THEN << SubSeq(s, start, Len(s)) >>
    ELSE IF CharAt(s, i) = sep
         THEN << SubSeq(s, start, i - 1) >> \o SplitFrom(s, sep, i + 1, i + 1)
         ELSE SplitFrom(s, sep, start, i + 1)

Split(s, sep) == SplitFrom(s, sep, 1, 1)

\* sub in s
Contains(s, sub) ==
    \E i \in 1..(Len(s) - Len(sub) + 1) : SubSeq(s, i, i + Len(sub) - 1) = sub

Uppers == "ABCDEFGHIJKLMNOPQRSTUVWXYZ"
Lowers == "abcdefghijklmnopqrstuvwxyz"

UpperSet == { CharAt(Uppers, k) : k \in 1..Len(Uppers) }
LowerMap ==
    [ c \in UpperSet |->
        CharAt(Lowers, CHOOSE k \in 1..Len(Uppers) : CharAt(Uppers, k) = c) ]

LowerChar(c) == IF c \in UpperSet THEN LowerMap[c] ELSE c

\* s.lower(), by halves to keep the evaluation shallow on long texts
RECURSIVE Lower(_)
Lower(s) ==
    IF Len(s) = 0 THEN ""
    ELSE IF Len(s) = 1 THEN LowerChar(s)
    ELSE LET h == Len(s) \div 2
         IN  Lower(SubSeq(s, 1, h)) \o Lower(SubSeq(s, h + 1, Len(s)))

RECURSIVE Join(_, _)
Join(sep, xs) ==
    IF xs = <<>> THEN ""
    ELSE IF Len(xs) = 1 THEN xs[1]
    ELSE xs[1] \o sep \o Join(sep, Tail(xs))

Digits == "0123456789"

IsDigit(c) == \E k \in 1..Len(Digits) : CharAt(Digits, k) = c

DigitVal(c) == (CHOOSE k \in 1..Len(Digits) : CharAt(Digits, k) = c) - 1

RECURSIVE DigitsVal(_, _, _)
DigitsVal(s, i, acc) ==
    IF i > Len(s) THEN acc
    ELSE DigitsVal(s, i + 1, acc * 10 + DigitVal(CharAt(s, i)))

\* int(s): surrounding blanks are ignored, one optional sign, then one or
\* more decimal digits; anything else raises ValueError (None here).
ParseInt(s) ==
    LET t == Strip(s)
        signed == Len(t) >= 1 /\ CharAt(t, 1) \in {"+", "-"}
        body == IF signed THEN SubSeq(t, 2, Len(t)) ELSE t
    IN  IF Len(body) = 0 \/ \E i \in 1..Len(body) : ~IsDigit(CharAt(body, i))
        THEN None
        ELSE IF signed /\ CharAt(t, 1) = "-"
             THEN Some(0 - DigitsVal(body, 1, 0))
             ELSE Some(DigitsVal(body, 1, 0))

----------------------------------------------------------------------------
(* parse_time_str, time_in_windows, parse_windows_input                     *)

\* h, m = map(int, tstr.strip().split(":")); time(hour=h, minute=m);
\* every exception (a piece that is no int, not exactly two pieces, an hour
\* or minute out of range) gives None.
parse_time_str(tstr) ==
    LET ps == Split(Strip(tstr), ":") IN
    IF Len(ps) # 2 THEN None
    ELSE LET h == ParseInt(ps[1])
             m == ParseInt(ps[2])
         IN  IF h = None \/ m = None THEN None
             ELSE IF h[1] \in 0..23 /\ m[1] \in 0..59
                  THEN Some(<< h[1], m[1] >>)
                  ELSE None

\* a <= b on datetime.time values
TimeLE(a, b) == a[1] < b[1] \/ (a[1] = b[1] /\ a[2] <= b[2])

\* time_in_windows with the end of a plain window excluded
RECURSIVE time_in_windows_open_end(_, _)
time_in_windows_open_end(t, windows) ==
    IF windows = <<>> THEN FALSE
    ELSE LET s == windows[1][1]
             e == windows[1][2]
         IN  IF TimeLE(s, e)
             THEN IF TimeLE(s, t) /\ TimeLE(t, e) /\ t # e
                  THEN TRUE
                  ELSE time_in_windows_open_end(t, Tail(windows))
             ELSE IF TimeLE(s, t) \/ TimeLE(t, e)
                  THEN TRUE
                  ELSE time_in_windows_open_end(t, Tail(windows))

RECURSIVE time_in_windows(_, _)
time_in_windows(t, windows) ==
    IF windows = <<>> THEN FALSE
    ELSE LET s == windows[1][1]
             e == windows[1][2]
         IN  IF TimeLE(s, e)
             THEN IF TimeLE(s, t) /\ TimeLE(t, e)
                  THEN TRUE
                  ELSE time_in_windows(t, Tail(windows))
             ELSE IF TimeLE(s, t) \/ TimeLE(t, e)
                  THEN TRUE
                  ELSE time_in_windows(t, Tail(windows))

\* parts = [p.strip() for p in win_str.split(",") if p.strip()]
RECURSIVE StripNonEmpty(_)
StripNonEmpty(ps) ==
    IF ps = <<>> THEN <<>>
    ELSE IF Strip(ps[1]) = "" THEN StripNonEmpty(Tail(ps))
    ELSE << Strip(ps[1]) >> \o StripNonEmpty(Tail(ps))

\* The loop of parse_windows_input over parts.  "a, b = p.split("-")" raises
\* ValueError, which nothing catches, unless the split has exactly two pieces.
RECURSIVE WindowsLoop(_, _)
WindowsLoop(parts, windows) ==
    IF parts = <<>> THEN [raised |-> FALSE, windows |-> windows]
    ELSE LET p == parts[1] IN
         IF ~Contains(p, "-") THEN WindowsLoop(Tail(parts), windows)
         ELSE LET ab == Split(p, "-") IN
              IF Len(ab) # 2 THEN [raised |-> TRUE, windows |-> windows]
              ELSE LET ta == parse_time_str(ab[1])
                       tb == parse_time_str(ab[2])
                   IN  IF ta # None /\ tb # None
                       THEN WindowsLoop(Tail(parts), Append(windows, << ta[1], tb[1] >>))
                       ELSE WindowsLoop(Tail(parts), windows)

parse_windows_input(win_str) ==
    WindowsLoop(StripNonEmpty(Split(win_str, ",")), <<>>)

----------------------------------------------------------------------------
(* float() on the numeric prompts, round(x, 5) and the calculators          *)

RECURSIVE Pow10(_)
Pow10(n) == IF n = 0 THEN 1 ELSE 10 * Pow10(n - 1)

AllDigits(s) == \A i \in 1..Len(s) : IsDigit(CharAt(s, i))

\* float(s) as a fixed-point number with `places` decimals: blanks around,
\* one optional sign, digits with an optional fraction.  Any other text
\* raises ValueError (None here).  The texts of the model carry at most
\* `places` decimals, so no digit is lost.
ParseFloat(s, places) ==
    LET t == Strip(s)
        signed == Len(t) >= 1 /\ CharAt(t, 1) \in {"+", "-"}
        body == IF signed THEN SubSeq(t, 2, Len(t)) ELSE t
        ps == Split(body, ".")
        ip == ps[1]
        fr == IF Len(ps) = 2
              THEN SubSeq(ps[2], 1, IF Len(ps[2]) < places THEN Len(ps[2]) ELSE places)
              ELSE ""
        ok == /\ Len(ps) <= 2
              /\ AllDigits(ip)
              /\ (Len(ps) = 2 => AllDigits(ps[2]))
              /\ Len(ip) + (IF Len(ps) = 2 THEN Len(ps[2]) ELSE 0) >= 1
        mag == DigitsVal(ip, 1, 0) * Pow10(places)
               + DigitsVal(fr, 1, 0) * Pow10(places - Len(fr))
    IN  IF ~ok THEN None
        ELSE IF signed /\ CharAt(t, 1) = "-" THEN Some(0 - mag) ELSE Some(mag)

\* try: if s != "": x = float(s)  except: x = None      (prices, millionths)
ParsePrice(s) == IF s = "" THEN None ELSE ParseFloat(s, 6)

Abs(x) == IF x < 0 THEN 0 - x ELSE x

\* round(n / scale millionths, 5), in millionths: the nearest multiple of 10;
\* an exact decimal tie goes up when `up`, down otherwise.
Round5(n, scale, up) ==
    LET grid == 10 * scale
        q == n \div grid
        r == n % grid
    IN  IF 2 * r < grid THEN 10 * q
        ELSE IF 2 * r > grid THEN 10 * (q + 1)
        ELSE IF up THEN 10 * (q + 1) ELSE 10 * q

\* atr_multiplier=1.5, in tenths
AtrMultiplier == 15

\* suggest_stop_from_atr(entry, direction, atr, atr_multiplier): <<stop, dist>>
suggest_stop_from_atr(e, dir, a, mult, ties) ==
    LET dist == a * mult      \* tenths of a millionth
    IN  << IF dir = "long"
           THEN Round5(10 * e - dist, 10, ties.stop)
           ELSE Round5(10 * e + dist, 10, ties.stop),
           Round5(dist, 10, ties.dist) >>

\* r_list=(1.0, 1.5, 2.0) of the call in main, in tenths
RList == << 10, 15, 20 >>

RECURSIVE r_multiples(_, _, _, _, _)
r_multiples(e, stop, dir, r_list, ties) ==
    IF r_list = <<>> THEN <<>>
    ELSE LET stop_dist == Abs(e - stop)
             r == r_list[1]
             tp == IF dir = "long"
                   THEN Round5(10 * e + stop_dist * r, 10, ties.tp)
                   ELSE Round5(10 * e - stop_dist * r, 10, ties.tp)
         IN  << << r, tp >> >> \o r_multiples(e, stop, dir, Tail(r_list), ties)

\* a * 10^k / c by long division (the product itself would not fit
\* 32-bit integers): <<quotient, remainder>> for a >= 0, c > 0.
RECURSIVE LongDiv(_, _, _, _)
LongDiv(q, r, c, k) ==
    IF k = 0 THEN << q, r >>
    ELSE LongDiv(q * 10 + (r * 10) \div c, (r * 10) % c, c, k - 1)

\* f"{risk_amount / stop_dist_price:.2f}" in cents: risk_cents / 100 divided
\* by d millionths is risk_cents * 10^6 / d cents, rounded to the nearest.
ExposureCents(risk_cents, d, up) ==
    LET s == IF risk_cents < 0 THEN 0 - 1 ELSE 1
        a == Abs(risk_cents)
        qr == LongDiv(a \div d, a % d, d, 6)
        q == IF 2 * qr[2] > d \/ (2 * qr[2] = d /\ up) THEN qr[1] + 1 ELSE qr[1]
    IN  s * q

----------------------------------------------------------------------------
(* Reason texts of the rules engine                                         *)

ReasonUnclear ==
    "1H structure unclear - prefer structure in trade direction."
ReasonMismatchLong ==
    "1H structure is LOWER while you plan a LONG. That's a structural mismatch."
ReasonMismatchShort ==
    "1H structure is HIGHER while you plan a SHORT. That's a structural mismatch."
ReasonConsolidation ==
    "Market consolidation - breakouts can be false; consider waiting for clear momentum."
ReasonPatternOnly ==
    "Pattern present but no ICT-level confirmation."
ReasonIctOnly ==
    "ICT level(s) present but no classic pattern; may need further price reaction."
ReasonNoConfluence ==
    "No patterns or ICT levels flagged - consider waiting for clearer confluence."
ReasonOutsideWindows ==
    "Setup time is outside your allowed trading windows - recommended to wait."
ReasonNoStop ==
    "No stop provided and no ATR - cannot auto-calc stop."
ReasonNoEntry ==
    "No entry price provided - TP/stop calculations skipped."
\* the distance is printed in millionths
ReasonStopFromAtr(dist) ==
    "Stop auto-calculated from ATR (multiplier 1.5): distance " \o ToString(dist)

----------------------------------------------------------------------------
(* main(): the prompts                                                      *)

\* x in xs for a list xs
InList(x, xs) == \E i \in 1..Len(xs) : xs[i] = x

\* [p.strip().lower() for p in patterns_raw.split(",") if p.strip()]
RECURSIVE LowerAll(_)
LowerAll(ps) == IF ps = <<>> THEN <<>> ELSE << Lower(ps[1]) >> \o LowerAll(Tail(ps))

PatternsOf(raw) ==
    LET ps == LowerAll(StripNonEmpty(Split(raw, ",")))
    IN  IF ps = <<>> THEN << "none" >> ELSE ps

\* time_ok as lines 142-153 leave it
TimeOkOf(ts, t, windows) ==
    IF ts = "" THEN TRUE
    ELSE IF t = None THEN TRUE
    ELSE IF windows # <<>> THEN time_in_windows(t[1], windows)
    ELSE TRUE

\* Lines 109-187: the prompts are answered with the texts drawn in Init.  The
\* windows text is parsed first (an exception there ends the program), "q" at
\* the patterns prompt returns, the ATR is asked for only when an entry was
\* given without a stop.
ReadInputs ==
    /\ pc = "start"
    /\ LET wi == Strip(win_input)
           w  == IF wi # "" THEN parse_windows_input(wi)
                 ELSE [raised |-> FALSE, windows |-> <<>>]
           praw == Strip(patterns_raw)
           ts == Strip(time_setup_str)
           t  == IF ts # "" THEN parse_time_str(ts) ELSE None
           en == ParsePrice(Strip(entry_s))
           st == ParsePrice(Strip(stop_s))
       IN  IF w.raised
           THEN /\ pc' = "crashed"
                /\ UNCHANGED parsed
           ELSE IF Lower(praw) = "q"
           THEN /\ pc' = "quit"
                /\ trading_windows' = w.windows
                /\ UNCHANGED <<patterns, tsetup, time_ok, entry, stop_price, atr>>
           ELSE /\ pc' = "rule1"
                /\ trading_windows' = w.windows
                /\ patterns' = PatternsOf(praw)
                /\ tsetup' = t
                /\ time_ok' = TimeOkOf(ts, t, w.windows)
                /\ entry' = en
                /\ stop_price' = st
                /\ atr' = IF en # None /\ st = None
                          THEN ParsePrice(Strip(atr_s)) ELSE None
    /\ UNCHANGED <<inputs, rules, should_trade, calc, verdict>>

----------------------------------------------------------------------------
(* main(): the rules engine                                                 *)

\* StructureRule with the short branch answering a HIGHER structure with the
\* "unclear" reason
StructureRuleShortUnclear(dir, struct) ==
    IF dir = "long"
    THEN IF struct = "higher" THEN << 2, <<>> >>
         ELSE IF struct = "unclear" THEN << 0, << ReasonUnclear >> >>
         ELSE << 0, << ReasonMismatchLong >> >>
    ELSE IF struct = "lower" THEN << 2, <<>> >>
         ELSE << 0, << ReasonUnclear >> >>

\* 1) structure vs direction: <<score delta, reasons added>>
StructureRule(dir, struct) ==
    IF dir = "long"
    THEN IF struct = "higher" THEN << 2, <<>> >>
         ELSE IF struct = "unclear" THEN << 0, << ReasonUnclear >> >>
         ELSE << 0, << ReasonMismatchLong >> >>
    ELSE IF struct = "lower" THEN << 2, <<>> >>
         ELSE IF struct = "unclear" THEN << 0, << ReasonUnclear >> >>
         ELSE << 0, << ReasonMismatchShort >> >>

Rule1 ==
    /\ pc = "rule1"
    /\ LET d == StructureRule(direction, structure_1h)
       IN  /\ score' = score + d[1]
           /\ reasons' = reasons \o d[2]
    /\ pc' = "rule2"
    /\ UNCHANGED <<inputs, parsed, ict_confirm, pattern_confirm, should_trade,
                   calc, verdict>>

\* EnvironmentRule with the reversal branch reading the FVG flag instead of
\* the order-block flag
EnvironmentRuleFvg(env, pats, f, o, l) ==
    IF env = "expansion" THEN << 1, <<>> >>
    ELSE IF env = "consolidation"
         THEN IF InList("breakout", pats)
              THEN << 0 - 1, << ReasonConsolidation >> >>
              ELSE << 0, <<>> >>
    ELSE IF env = "reversal"
         THEN IF InList("engulfing", pats) \/ f = "y"
              THEN << 2, <<>> >>
              ELSE << 0, <<>> >>
    ELSE IF env = "retracement"
         THEN IF f = "y" \/ o = "y" \/ l = "y"
              THEN << 1, <<>> >>
              ELSE << 0, <<>> >>
    ELSE << 0, <<>> >>

\* 2) market environment: <<score delta, reasons added>>
EnvironmentRule(env, pats, f, o, l) ==
    IF env = "expansion" THEN << 1, <<>> >>
    ELSE IF env = "consolidation"
         THEN IF InList("breakout", pats)
              THEN << 0 - 1, << ReasonConsolidation >> >>
              ELSE << 0, <<>> >>
    ELSE IF env = "reversal"
         THEN IF InList("engulfing", pats) \/ o = "y"
              THEN << 2, <<>> >>
              ELSE << 0, <<>> >>
    ELSE IF env = "retracement"
         THEN IF f = "y" \/ o = "y" \/ l = "y"
              THEN << 1, <<>> >>
              ELSE << 0, <<>> >>
    ELSE << 0, <<>> >>

Rule2 ==
    /\ pc = "rule2"
    /\ LET d == EnvironmentRule(market_env, patterns, fvg, ob, liq)
       IN  /\ score' = score + d[1]
           /\ reasons' = reasons \o d[2]
    /\ pc' = "rule3"
    /\ UNCHANGED <<inputs, parsed, ict_confirm, pattern_confirm, should_trade,
                   calc, verdict>>

IctConfirmOf(f, o, l) == f = "y" \/ o = "y" \/ l = "y"

ConfirmPatterns == { "engulfing", "breakout", "pinbar", "inside" }

PatternConfirmOf(pats) == \E i \in 1..Len(pats) : pats[i] \in ConfirmPatterns

\* ConfirmRule without the point for a pattern alone
ConfirmRuleNoPatternPoint(ic, pcf) ==
    IF ic /\ pcf THEN << 3, <<>> >>
    ELSE IF pcf THEN << 0, << ReasonPatternOnly >> >>
    ELSE IF ic THEN << 1, << ReasonIctOnly >> >>
    ELSE << 0, << ReasonNoConfluence >> >>

\* 3) pattern / ICT confirmation: <<score delta, reasons added>>
ConfirmRule(ic, pcf) ==
    IF ic /\ pcf THEN << 3, <<>> >>
    ELSE IF pcf THEN << 1, << ReasonPatternOnly >> >>
    ELSE IF ic THEN << 1, << ReasonIctOnly >> >>
    ELSE << 0, << ReasonNoConfluence >> >>

Rule3 ==
    /\ pc = "rule3"
    /\ LET ic == IctConfirmOf(fvg, ob, liq)
           pcf == PatternConfirmOf(patterns)
           d == ConfirmRule(ic, pcf)
       IN  /\ ict_confirm' = ic
           /\ pattern_confirm' = pcf
           /\ score' = score + d[1]
           /\ reasons' = reasons \o d[2]
    /\ pc' = "rule4"
    /\ UNCHANGED <<inputs, parsed, should_trade, calc, verdict>>

\* 4) time-of-day check: <<score delta, reasons added>>
TimeRule(windows, ts, ok) ==
    IF windows # <<>> /\ ts # ""
    THEN IF ~ok THEN << 0, << ReasonOutsideWindows >> >> ELSE << 1, <<>> >>
    ELSE << 0, <<>> >>

Rule4 ==
    /\ pc = "rule4"
    /\ LET d == TimeRule(trading_windows, Strip(time_setup_str), time_ok)
       IN  /\ score' = score + d[1]
           /\ reasons' = reasons \o d[2]
    /\ pc' = "decide"
    /\ UNCHANGED <<inputs, parsed, ict_confirm, pattern_confirm, should_trade,
                   calc, verdict>>

\* 5) final pass/fail logic (line 261)
ShouldTradeOf(rs, struct, pcf, ic) ==
    ~ \/ Contains(Lower(Join(" ", rs)), "mismatch")
      \/ (struct = "unclear" /\ ~(pcf /\ ic))
      \/ ~(pcf \/ ic)

Decide ==
    /\ pc = "decide"
    /\ should_trade' = ShouldTradeOf(reasons, structure_1h, pattern_confirm, ict_confirm)
    /\ pc' = "stop"
    /\ UNCHANGED <<inputs, parsed, rules, calc, verdict>>

----------------------------------------------------------------------------
(* main(): stop, take-profits, position sizing, verdict                     *)

\* Lines 264-281: <<suggested_stop, stop_distance, reasons added>>
StopOf(en, st, a, dir, ties) ==
    IF en # None
    THEN IF st = None
         THEN IF a # None
              THEN LET sd == suggest_stop_from_atr(en[1], dir, a[1], AtrMultiplier, ties)
                   IN  << Some(sd[1]), Some(sd[2]), << ReasonStopFromAtr(sd[2]) >> >>
              ELSE << st, None, << ReasonNoStop >> >>
         ELSE << st, Some(Round5(Abs(en[1] - st[1]), 1, ties.dist)), <<>> >>
    ELSE << st, None, << ReasonNoEntry >> >>

StopCalc ==
    /\ pc = "stop"
    /\ LET r == StopOf(entry, stop_price, atr, direction, fp)
       IN  /\ suggested_stop' = r[1]
           /\ stop_distance' = r[2]
           /\ reasons' = reasons \o r[3]
    /\ pc' = "tps"
    /\ UNCHANGED <<inputs, parsed, score, ict_confirm, pattern_confirm,
                   should_trade, tps, pos_hint, verdict>>

\* truth value of an optional float: None and 0.0 are false
Truthy(x) == x # None /\ x[1] # 0

\* used_stop = suggested_stop if suggested_stop is not None else stop_price
UsedStop(ss, st) == IF ss # None THEN ss ELSE st

\* Lines 283-286
TakeProfitsOf(en, ss, st, dir, ties) ==
    IF en # None /\ (Truthy(ss) \/ Truthy(st))
    THEN r_multiples(en[1], UsedStop(ss, st)[1], dir, RList, ties)
    ELSE <<>>

TakeProfits ==
    /\ pc = "tps"
    /\ tps' = TakeProfitsOf(entry, suggested_stop, stop_price, direction, fp)
    /\ pc' = "sizing"
    /\ UNCHANGED <<inputs, parsed, rules, should_trade, suggested_stop,
                   stop_distance, pos_hint, verdict>>

Hint(kind, risk, qty) == [kind |-> kind, risk_cents |-> risk, qty_cents |-> qty]

\* PosHintOf without the zero-distance test: the division raises
\* ZeroDivisionError, which the except clause turns into the error hint
PosHintOfNoZeroTest(as, rs, en, ss, st, ties) ==
    IF as # "" /\ rs # "" /\ en # None /\ (st # None \/ ss # None)
    THEN LET acct == ParseFloat(as, 0)
             risk_pct == ParseFloat(rs, 0)
         IN  IF acct = None \/ risk_pct = None
             THEN Hint("error", None, None)
             ELSE LET risk_amount == acct[1] * risk_pct[1]
                      used_stop == UsedStop(ss, st)
                  IN  IF used_stop = None
                      THEN Hint("no_stop", None, None)
                      ELSE LET stop_dist_price == Abs(en[1] - used_stop[1])
                           IN  IF stop_dist_price = 0
                               THEN Hint("error", None, None)
                               ELSE Hint("exposure", Some(risk_amount),
                                         Some(ExposureCents(risk_amount,
                                                            stop_dist_price,
                                                            ties.fmt)))
    ELSE IF as # "" \/ rs # ""
    THEN Hint("need_both", None, None)
    ELSE Hint("none", None, None)

\* Lines 288-311.  Account is read in whole currency units and the risk in
\* whole percents, so acct * risk_pct / 100 is acct * risk_pct cents.
PosHintOf(as, rs, en, ss, st, ties) ==
    IF as # "" /\ rs # "" /\ en # None /\ (st # None \/ ss # None)
    THEN LET acct == ParseFloat(as, 0)
             risk_pct == ParseFloat(rs, 0)
         IN  IF acct = None \/ risk_pct = None
             THEN Hint("error", None, None)
             ELSE LET risk_amount == acct[1] * risk_pct[1]
                      used_stop == UsedStop(ss, st)
                  IN  IF used_stop = None
                      THEN Hint("no_stop", None, None)
                      ELSE LET stop_dist_price == Abs(en[1] - used_stop[1])
                           IN  IF stop_dist_price = 0
                               THEN Hint("zero_distance", None, None)
                               ELSE Hint("exposure", Some(risk_amount),
                                         Some(ExposureCents(risk_amount,
                                                            stop_dist_price,
                                                            ties.fmt)))
    ELSE IF as # "" \/ rs # ""
    THEN Hint("need_both", None, None)
    ELSE Hint("none", None, None)

Sizing ==
    /\ pc = "sizing"
    /\ pos_hint' = PosHintOf(Strip(acct_s), Strip(risk_pct_s), entry,
                             suggested_stop, stop_price, fp)
    /\ pc' = "report"
    /\ UNCHANGED <<inputs, parsed, rules, should_trade, suggested_stop,
                   stop_distance, tps, verdict>>

\* VerdictOf with the threshold excluded
VerdictOfAbove3(st, sc) == IF st /\ sc > 3 THEN "valid" ELSE "not_recommended"

\* Lines 326-330
VerdictOf(st, sc) == IF st /\ sc >= 3 THEN "valid" ELSE "not_recommended"

Report ==
    /\ pc = "report"
    /\ verdict' = VerdictOf(should_trade, score)
    /\ pc' = "done"
    /\ UNCHANGED <<inputs, parsed, rules, should_trade, calc>>

Next ==
    \/ ReadInputs
    \/ Rule1
    \/ Rule2
    \/ Rule3
    \/ Rule4
    \/ Decide
    \/ StopCalc
    \/ TakeProfits
    \/ Sizing
    \/ Report

----------------------------------------------------------------------------
(* Inputs                                                                   *)

Directions == { "long", "short" }
Structures == { "higher", "lower", "unclear" }
Environments == { "expansion", "consolidation", "reversal", "retracement" }
YesNo == { "y", "n" }

\* all texts made of 1..n pieces of `words` separated by commas
RECURSIVE CommaTexts(_, _)
CommaTexts(words, n) ==
    IF n <= 1 THEN words
    ELSE LET shorter == CommaTexts(words, n - 1)
         IN  shorter \cup { a \o "," \o b : a \in shorter, b \in words }

MaxPatterns == 2
PatternWords == { "", "breakout", " Engulfing" }
\* lists of up to MaxPatterns words, the quit answer, a pattern no rule knows
PatternTexts == CommaTexts(PatternWords, MaxPatterns) \cup { "q", "doji" }

\* <<windows text, setup-time text>>
TimingTexts ==
    { << "", "" >>, << "", "12:00" >>, << "09:30-11:30", "" >>,
      << "09:30-11:30", "09:30" >>, << "09:30-11:30", "12:00" >>,
      << "09:30-11:30", "ab" >> }

Ties == [ { "stop", "dist", "tp", "fmt" } -> BOOLEAN ]
NoTies == [ k \in { "stop", "dist", "tp", "fmt" } |-> FALSE ]

\* the state of main() before its first prompt
Fresh ==
    /\ trading_windows = <<>>
    /\ patterns = <<>>
    /\ tsetup = None
    /\ time_ok = TRUE
    /\ entry = None
    /\ stop_price = None
    /\ atr = None
    /\ score = 0
    /\ reasons = <<>>
    /\ ict_confirm = FALSE
    /\ pattern_confirm = FALSE
    /\ should_trade = TRUE
    /\ suggested_stop = None
    /\ stop_distance = None
    /\ tps = <<>>
    /\ pos_hint = None
    /\ verdict = ""

\* Every setup of the rules engine, a few timing cases, no prices.
Init ==
    /\ direction \in Directions
    /\ structure_1h \in Structures
    /\ market_env \in Environments
    /\ patterns_raw \in PatternTexts
    /\ fvg \in YesNo
    /\ ob \in YesNo
    /\ liq \in YesNo
    /\ \E tt \in TimingTexts : win_input = tt[1] /\ time_setup_str = tt[2]
    /\ entry_s = ""
    /\ stop_s = ""
    /\ atr_s = ""
    /\ acct_s = ""
    /\ risk_pct_s = ""
    /\ fp = NoTies
    /\ Fresh
    /\ pc = "start"

Spec == Init /\ [][Next]_vars

----------------------------------------------------------------------------
(* NumSpec: main() over the price, ATR and sizing prompts, one fixed setup   *)

EntryTexts == { "", "abc", "1.1000", "1.100005", "0.00003" }
StopTexts == { "", "n/a", "0", "1.0950", "1.1000", "1.100019" }
AtrTexts == { "", "bad", "0", "0.00001", "0.00002", "0.0020", "-0.0020" }
AccountTexts == { "", "abc", "10000" }
RiskTexts == { "", "x", "1" }

NumInit ==
    /\ direction \in Directions
    /\ structure_1h = "higher"
    /\ market_env = "expansion"
    /\ patterns_raw = "breakout"
    /\ fvg = "y"
    /\ ob = "n"
    /\ liq = "n"
    /\ win_input = ""
    /\ time_setup_str = ""
    /\ entry_s \in EntryTexts
    /\ stop_s \in StopTexts
    /\ atr_s \in AtrTexts
       \* the ATR prompt appears only for an entry without a stop
    /\ (ParsePrice(entry_s) = None \/ ParsePrice(stop_s) # None) => atr_s = ""
    /\ acct_s \in AccountTexts
    /\ risk_pct_s \in RiskTexts
    /\ fp \in Ties
    /\ Fresh
    /\ pc = "start"

NumSpec == NumInit /\ [][Next]_vars

----------------------------------------------------------------------------
(* ParseSpec: parse_windows_input applied to a windows text                  *)

MaxTokens == 2
WindowTokens ==
    { "", "13:00", "ab-cd", "09:30-11:30", "22:00-02:00", " 0:00 - 0:01 ",
      "9:5-24:00", "09:30-10:00-11:00" }
WindowTexts == CommaTexts(WindowTokens, MaxTokens)

Idle ==
    /\ direction = "long"
    /\ structure_1h = "higher"
    /\ market_env = "expansion"
    /\ patterns_raw = ""
    /\ fvg = "n"
    /\ ob = "n"
    /\ liq = "n"
    /\ time_setup_str = ""
    /\ entry_s = ""
    /\ stop_s = ""
    /\ atr_s = ""
    /\ acct_s = ""
    /\ risk_pct_s = ""
    /\ fp = NoTies

ParseInit ==
    /\ win_input \in WindowTexts
    /\ Idle
    /\ Fresh
    /\ pc = "parse_call"

CallParseWindows ==
    /\ pc = "parse_call"
    /\ LET w == parse_windows_input(win_input)
       IN  /\ trading_windows' = w.windows
           /\ pc' = IF w.raised THEN "parse_raised" ELSE "parse_ret"
    /\ UNCHANGED <<inputs, patterns, tsetup, time_ok, entry, stop_price, atr,
                   rules, should_trade, calc, verdict>>

ParseNext == CallParseWindows

ParseSpec == ParseInit /\ [][ParseNext]_vars

----------------------------------------------------------------------------
(* WindowSpec: time_in_windows applied to a time and a list of windows       *)

MaxWindows == 2
WindowEnds == { << 9, 30 >>, << 11, 30 >>, << 22, 0 >>, << 2, 0 >> }
ProbeTimes ==
    { << 9, 30 >>, << 11, 30 >>, << 11, 31 >>, << 23, 30 >>, << 1, 0 >>,
      << 12, 0 >>, << 22, 0 >>, << 9, 29 >> }

RECURSIVE ListsUpTo(_, _)
ListsUpTo(S, n) ==
    IF n = 0 THEN { <<>> }
    ELSE LET shorter == ListsUpTo(S, n - 1)
         IN  shorter \cup { Append(l, x) : l \in shorter, x \in S }

WindowInit ==
    /\ trading_windows \in ListsUpTo(WindowEnds \X WindowEnds, MaxWindows)
    /\ \E t \in ProbeTimes : tsetup = Some(t)
    /\ win_input = ""
    /\ Idle
    /\ patterns = <<>>
    /\ time_ok = TRUE
    /\ entry = None
    /\ stop_price = None
    /\ atr = None
    /\ score = 0
    /\ reasons = <<>>
    /\ ict_confirm = FALSE
    /\ pattern_confirm = FALSE
    /\ should_trade = TRUE
    /\ suggested_stop = None
    /\ stop_distance = None
    /\ tps = <<>>
    /\ pos_hint = None
    /\ verdict = ""
    /\ pc = "within_call"

CallTimeInWindows ==
    /\ pc = "within_call"
    /\ time_ok' = time_in_windows(tsetup[1], trading_windows)
    /\ pc' = "within_ret"
    /\ UNCHANGED <<inputs, trading_windows, patterns, tsetup, entry, stop_price,
                   atr, rules, should_trade, calc, verdict>>

WindowNext == CallTimeInWindows

WindowSpec == WindowInit /\ [][WindowNext]_vars

----------------------------------------------------------------------------
(* Properties                                                               *)

Scored == pc \in { "decide", "stop", "tps", "sizing", "report", "done" }
Decided == pc \in { "stop", "tps", "sizing", "report", "done" }
StopKnown == pc \in { "tps", "sizing", "report", "done" }
TargetsKnown == pc \in { "sizing", "report", "done" }
Sized == pc \in { "report", "done" }

PatternSet == { patterns[i] : i \in 1..Len(patterns) }
PatternConfirmed == PatternSet \cap { "engulfing", "breakout", "pinbar", "inside" } # {}
IctConfirmed == "y" \in { fvg, ob, liq }
Aligned ==
    \/ direction = "long" /\ structure_1h = "higher"
    \/ direction = "short" /\ structure_1h = "lower"
Mismatch ==
    \/ direction = "long" /\ structure_1h = "lower"
    \/ direction = "short" /\ structure_1h = "higher"
ConsolidationBreakout == market_env = "consolidation" /\ "breakout" \in PatternSet

\* C1: once decided, should_trade is false exactly when direction and
\* structure are a structural mismatch, or the structure is unclear without
\* both confirmations, or there is no confirmation at all; so the scan of the
\* reason text for "mismatch" agrees with the explicit mismatch flag.
C1_ShouldTradeRule ==
    Decided =>
        should_trade = ~ \/ Mismatch
                         \/ (structure_1h = "unclear" /\ ~(PatternConfirmed /\ IctConfirmed))
                         \/ ~(PatternConfirmed \/ IctConfirmed)

\* a mismatch with both confirmations and a score of at least 3: no trade
C1_Witness ==
    /\ pc = "done"
    /\ Mismatch
    /\ PatternConfirmed
    /\ IctConfirmed
    /\ score >= 3
    /\ ~should_trade

D1 == IF Aligned THEN 2 ELSE 0
D2 ==
    CASE market_env = "expansion" -> 1
      [] market_env = "consolidation" /\ "breakout" \in PatternSet -> 0 - 1
      [] market_env = "reversal" /\ ("engulfing" \in PatternSet \/ ob = "y") -> 2
      [] market_env = "retracement" /\ "y" \in { fvg, ob, liq } -> 1
      [] OTHER -> 0
D3 ==
    IF PatternConfirmed /\ IctConfirmed THEN 3
    ELSE IF PatternConfirmed \/ IctConfirmed THEN 1
    ELSE 0

SpecScenario ==
    /\ direction = "long"
    /\ structure_1h = "higher"
    /\ market_env = "expansion"
    /\ patterns = << "breakout" >>
    /\ fvg = "y"
    /\ ob = "n"
    /\ liq = "n"
    /\ trading_windows = <<>>

\* C2: with no trading windows configured the score is d1 + d2 + d3 (the
\* structure, environment and confirmation contributions), and the setup
\* long / higher / expansion / {breakout} / fvg scores 6, is tradeable and
\* is displayed as valid.
C2_ScoreIsSum ==
    /\ (Scored /\ trading_windows = <<>>) => score = D1 + D2 + D3
    /\ (pc = "done" /\ SpecScenario) =>
           (score = 6 /\ should_trade /\ verdict = "valid")

C2_Witness ==
    /\ pc = "done"
    /\ SpecScenario
    /\ score = 6
    /\ verdict = "valid"

TimingApplies ==
    /\ trading_windows # <<>>
    /\ Strip(time_setup_str) # ""
    /\ parse_time_str(time_setup_str) # None

\* C3: the timing rule changes the score or the reasons only when a window
\* is configured and a setup time that parses was supplied; with no window,
\* a blank time or a malformed time it leaves both as they were.
C3_TimingSilentWithoutTime ==
    [][ (pc = "rule4" /\ ~TimingApplies) => (score' = score /\ reasons' = reasons) ]_vars

Minutes(t) == 60 * t[1] + t[2]

InWindow(t, w) ==
    \/ Minutes(w[1]) <= Minutes(w[2]) /\ Minutes(w[1]) <= Minutes(t) /\ Minutes(t) <= Minutes(w[2])
    \/ Minutes(w[1]) > Minutes(w[2]) /\ (Minutes(t) >= Minutes(w[1]) \/ Minutes(t) <= Minutes(w[2]))

\* C4: time_in_windows(t, windows) is true iff some window of the list
\* contains t: s <= t <= e when s <= e, and t >= s or t <= e when s > e.
C4_WithinIffSomeWindow ==
    pc = "within_ret" =>
        time_ok = \E i \in 1..Len(trading_windows) : InWindow(tsetup[1], trading_windows[i])

\* 23:30 is outside (09:30,11:30) and inside the wrapping (22:00,02:00)
C4_Witness ==
    /\ pc = "within_ret"
    /\ trading_windows = << << << 9, 30 >>, << 11, 30 >> >>, << << 22, 0 >>, << 2, 0 >> >> >>
    /\ tsetup = Some(<< 23, 30 >>)
    /\ time_ok

\* the window of a token that is a well-formed range, else nothing
TokenWindow(tok) ==
    LET ab == Split(tok, "-") IN
    IF Len(ab) = 2 /\ parse_time_str(ab[1]) # None /\ parse_time_str(ab[2]) # None
    THEN << << parse_time_str(ab[1])[1], parse_time_str(ab[2])[1] >> >>
    ELSE <<>>

RECURSIVE WellFormedWindows(_)
WellFormedWindows(toks) ==
    IF toks = <<>> THEN <<>>
    ELSE TokenWindow(toks[1]) \o WellFormedWindows(Tail(toks))

\* C5: parse_windows_input never raises, and returns exactly the windows of
\* the well-formed tokens of the text, in their order.
C5_TolerantParse ==
    /\ pc # "parse_raised"
    /\ pc = "parse_ret" =>
           trading_windows = WellFormedWindows(Split(win_input, ","))

ResolvedStop == UsedStop(suggested_stop, stop_price)

\* C6: when an entry and a used stop are both defined, the reported stop
\* distance is |entry - used stop| (to the 5-decimal rounding the two values
\* carry) and is not negative.
C6_StopDistanceIsAbs ==
    (StopKnown /\ entry # None /\ ResolvedStop # None) =>
        /\ stop_distance # None
        /\ stop_distance[1] >= 0
        /\ Abs(stop_distance[1] - Abs(entry[1] - ResolvedStop[1])) <= 10

\* C7: the take-profit list is empty iff the entry or the resolved stop is
\* absent; otherwise it holds one pair per multiple 1.0, 1.5, 2.0 in order.
C7_TargetsIffEntryAndStop ==
    TargetsKnown =>
        IF entry # None /\ ResolvedStop # None
        THEN /\ Len(tps) = 3
             /\ << tps[1][1], tps[2][1], tps[3][1] >> = << 10, 15, 20 >>
        ELSE tps = <<>>

SizingInputsPresent ==
    /\ ParseFloat(Strip(acct_s), 0) # None
    /\ ParseFloat(Strip(risk_pct_s), 0) # None
    /\ entry # None
    /\ ResolvedStop # None

\* q * d - risk_cents * 10^6, with q split in thousands to stay in range
ExposureError(q, risk_cents, d) ==
    1000 * ((q \div 1000) * d - risk_cents * 1000) + (q % 1000) * d

\* C8: with account, risk percent, entry and a resolved stop all present,
\* the hint is the zero-stop-distance outcome without an exposure exactly
\* when |entry - used stop| = 0, and otherwise an exposure equal (to the
\* cent) to (account * risk / 100) / |entry - used stop|; no division by
\* zero is attempted.
C8_SizingNeverDividesByZero ==
    (Sized /\ SizingInputsPresent) =>
        LET d == Abs(entry[1] - ResolvedStop[1])
            risk == ParseFloat(Strip(acct_s), 0)[1] * ParseFloat(Strip(risk_pct_s), 0)[1]
        IN  IF d = 0
            THEN pos_hint.kind = "zero_distance" /\ pos_hint.qty_cents = None
            ELSE /\ pos_hint.kind = "exposure"
                 /\ pos_hint.risk_cents = Some(risk)
                 /\ pos_hint.qty_cents # None
                 /\ 2 * Abs(ExposureError(pos_hint.qty_cents[1], risk, d)) <= d

\* account 10000, risk 1, entry 1.1000, stop 1.0950: risk 100.00, exposure 20000.00
C8_Witness ==
    /\ pc = "done"
    /\ Strip(acct_s) = "10000"
    /\ Strip(risk_pct_s) = "1"
    /\ entry = Some(1100000)
    /\ stop_price = Some(1095000)
    /\ pos_hint = Hint("exposure", Some(10000), Some(2000000))

\* the score rules 1-4 leave for a setup and a time-membership input
FinalScore(dir, struct, env, pats, f, o, l, windows, ts, ok) ==
    StructureRule(dir, struct)[1]
    + EnvironmentRule(env, pats, f, o, l)[1]
    + ConfirmRule(IctConfirmOf(f, o, l), PatternConfirmOf(pats))[1]
    + TimeRule(windows, ts, ok)[1]

\* C9 as stated: before the first prompt is answered, some setup, with some
\* time-membership input, would get a final score below 0.
C9_ScoreCanBeNegative ==
    pc = "start" =>
    \E dir \in Directions, struct \in Structures, env \in Environments,
       raw \in PatternTexts, f \in YesNo, o \in YesNo, l \in YesNo,
       windows \in { <<>>, << << << 9, 30 >>, << 11, 30 >> >> >> },
       ts \in { "", "09:30" }, ok \in BOOLEAN :
        FinalScore(dir, struct, env, PatternsOf(raw), f, o, l, windows, ts, ok) < 0

\* C9 amended: the final score is never negative (the -1 of a breakout in
\* consolidation comes with at least +1 for the pattern confirmation).
C9_FinalScoreNotNegative == Scored => score >= 0

\* the lowest case: no alignment, breakout in consolidation, pattern only
C9_Witness ==
    /\ pc = "done"
    /\ ConsolidationBreakout
    /\ ~Aligned
    /\ score = 0

\* C10: a tradeable setup that is not a breakout in consolidation scores at
\* least 3 and is displayed as valid; a tradeable setup is displayed as not
\* recommended only for a breakout in consolidation.
C10_TradeableIsValid ==
    /\ (pc = "done" /\ should_trade /\ ~ConsolidationBreakout) =>
           (score >= 3 /\ verdict = "valid")
    /\ (pc = "done" /\ should_trade /\ verdict = "not_recommended") =>
           ConsolidationBreakout

\* the lowest tradeable case outside consolidation: aligned, ICT only
C10_Witness ==
    /\ pc = "done"
    /\ should_trade
    /\ ~ConsolidationBreakout
    /\ score = 3
    /\ verdict = "valid"

====
